---------------------------- MODULE Spec2Model ----------------------------
(***************************************************************************)
(* Model of src/app.py: the batched field extraction merge                 *)
(* (extract_info_from_pdf), the placeholder substitution and archive       *)
(* rewrite (fill_template), the image rewiring (replace_image_in_docx),    *)
(* the surroundings lookup (search_surroundings) and the report_form       *)
(* submit handler.                                                         *)
(*                                                                         *)
(* Strings of the source that are not ASCII are written as ASCII atoms:    *)
(*   SENTINEL                the value "not mentioned" of line 96/135/142  *)
(*   "GEOCODE_FAILED"        the status written at line 166                *)
(*   "SEARCH_EXCEPTION"      the status written at line 188                *)
(*   "SUCCESS"               the status written at line 157                *)
(* Schema keys are numbered by their position in ALL_FIELDS (1..34).       *)
(***************************************************************************)
EXTENDS Naturals, Sequences, FiniteSets, TLC

VARIABLES
    \* ---- extract_info_from_pdf (lines 87-144)
    numPages,       \* len(images)
    batch_start,    \* the loop variable of line 104
    all_results,    \* the accumulator of line 102
    raw,            \* the response of the batch just processed (lines 127-133)
    calls,          \* number of client.messages.create calls made (line 122)
    parseFailures,  \* number of batches that ended in the except branch (137)
    reported,       \* keys for which some parsed batch gave a non-trivial value
    pcE,            \* "loop", "returned" or "raised"
    \* ---- placeholder substitution of fill_template (lines 230-231)
    template,       \* the text of word/document.xml before substitution
    data,           \* the field map, key -> value
    order,          \* the order in which data.items() yields the keys
    xml_content,    \* the text after the passes made so far
    once,           \* the text after the first pass
    passes,         \* number of substitution passes made
    \* ---- the files fill_template and replace_image_in_docx work on
    tpl,            \* the file at TEMPLATE_PATH
    out,            \* the file at output_path / docx_path
    tmpLeft,        \* temporary files (".tmp", ".imgtmp") left on disk
    lastOp,         \* the function called last
    lastOutcome,    \* "ok", "noop" (early return) or "raised"
    lastTag,        \* image_placeholder of the last replace_image_in_docx call
    opCount,        \* number of calls made
    rewired,        \* tags whose call rewrote the archive
    \* ---- the report_form submit handler (lines 387-435)
    pcP,            \* position in the handler
    inputs,         \* what the form and the sidebar hold at submit
    surroundings,   \* the record of line 388 / 395
    paras,          \* <<para1, para2>>
    events          \* external calls, file writes and error reports, in order

varsE == <<numPages, batch_start, all_results, raw, calls, parseFailures,
           reported, pcE>>
varsS == <<template, data, order, xml_content, once, passes>>
varsR == <<tpl, out, tmpLeft, lastOp, lastOutcome, lastTag, opCount, rewired>>
varsP == <<pcP, inputs, surroundings, paras, events>>
vars == <<varsE, varsS, varsR, varsP>>

-----------------------------------------------------------------------------
(* Bounds of the model                                                     *)

MaxPages == 7
NumReportedKeys == 1

-----------------------------------------------------------------------------
(* Schema (lines 47-68)                                                    *)

\* The four groups of FIELD_GROUPS, as the positions of their keys in
\* ALL_FIELDS: 11 + 8 + 11 + 4 keys.
FIELD_GROUPS == <<1..11, 12..19, 20..30, 31..34>>

ALL_FIELDS == UNION {FIELD_GROUPS[g] : g \in DOMAIN FIELD_GROUPS}

BATCH_SIZE == 3

SENTINEL == "NOT_MENTIONED"

\* JSON values a response can carry for a key: the empty string, JSON null,
\* the sentinel, and two different non-trivial strings.
JsonValues == {"", "null", SENTINEL, "v1", "v2"}

\* Python truthiness of a JSON value (the `v` and `not all_results[k]` tests
\* of line 135).
Truthy(v) == v \notin {"", "null"}

\* Keys a response may mention: the first NumReportedKeys schema keys and
\* key 0, which is not in the schema.
ReportedKeys == 0..NumReportedKeys

EmptyMap == [k \in {} |-> ""]

\* A response after the fence stripping of lines 127-131, by what
\* json.loads (line 133) makes of it:
\*   "object"     a JSON object, with its items
\*   "nonobject"  valid JSON that is no object: .items() raises (line 134)
\*   "garbage"    not JSON: json.loads raises
Responses ==
    {[kind |-> "object", items |-> f] :
        f \in UNION {[D -> JsonValues] : D \in SUBSET ReportedKeys}}
    \cup {[kind |-> "nonobject", items |-> EmptyMap],
          [kind |-> "garbage", items |-> EmptyMap]}

NoResponse == [kind |-> "none", items |-> EmptyMap]

\* The parts of the state a specification does not use stay at these values.
ExtractIdle ==
    /\ numPages = 0 /\ batch_start = 0 /\ all_results = EmptyMap
    /\ raw = NoResponse /\ calls = 0 /\ parseFailures = 0 /\ reported = {}
    /\ pcE = "idle"

SubstIdle ==
    /\ template = <<>> /\ data = EmptyMap /\ order = <<>>
    /\ xml_content = <<>> /\ once = <<>> /\ passes = 0

RewriteIdle ==
    /\ tpl = 0 /\ out = 0 /\ tmpLeft = {} /\ lastOp = "none"
    /\ lastOutcome = "none" /\ lastTag = "none" /\ opCount = 0 /\ rewired = {}

SubmitIdle ==
    /\ pcP = "idle" /\ inputs = 0 /\ surroundings = 0 /\ paras = <<>>
    /\ events = <<>>

\* Line 135 without its test of the accumulator.
MergeNoGuard(acc, k, v) == Truthy(v) /\ v # SENTINEL

\* Line 135: the pair (k, v) of a batch result is taken.

Takes(acc, k, v) ==
    /\ Truthy(v)
    /\ v # SENTINEL
    /\ (k \notin DOMAIN acc \/ ~Truthy(acc[k]) \/ acc[k] = SENTINEL)

\* Lines 134-136: the loop over batch_result.items().
Merge(acc, items) ==
    LET taken == {k \in DOMAIN items : Takes(acc, k, items[k])}
    IN  [k \in DOMAIN acc \cup taken |->
            IF k \in taken THEN items[k] ELSE acc[k]]

\* As if the except branch reset the accumulator.
MergeOnFailureDropsAll(acc, r) ==
    IF r.kind = "object" THEN Merge(acc, r.items) ELSE EmptyMap

\* Lines 132-138: try / except around parse and merge.
AfterBatch(acc, r) ==
    IF r.kind = "object" THEN Merge(acc, r.items) ELSE acc

\* Without lines 140-142.
FillNothing(acc) == acc

\* Lines 140-142: every schema key that is absent gets the sentinel.
FillMissing(acc) ==
    [k \in DOMAIN acc \cup ALL_FIELDS |->
        IF k \in DOMAIN acc THEN acc[k] ELSE SENTINEL]

InitE ==
    /\ numPages \in 0..MaxPages
    /\ batch_start = 0
    /\ all_results = EmptyMap
    /\ raw = NoResponse
    /\ calls = 0
    /\ parseFailures = 0
    /\ reported = {}
    /\ pcE = "loop"

\* One iteration of the loop of line 104 whose API call returns.
ProcessBatch ==
    /\ pcE = "loop"
    /\ batch_start < numPages
    /\ \E r \in Responses :
        /\ raw' = r
        /\ all_results' = AfterBatch(all_results, r)
        /\ parseFailures' = IF r.kind = "object" THEN parseFailures
                            ELSE parseFailures + 1
        /\ reported' = reported \cup
              {k \in DOMAIN r.items : Truthy(r.items[k]) /\ r.items[k] # SENTINEL}
    /\ calls' = calls + 1
    /\ batch_start' = batch_start + BATCH_SIZE
    /\ pcE' = "loop"
    /\ UNCHANGED numPages
    /\ UNCHANGED <<varsS, varsR, varsP>>

\* The API call of line 122 raises: nothing catches it inside the function.
ApiError ==
    /\ pcE = "loop"
    /\ batch_start < numPages
    /\ raw' = NoResponse
    /\ calls' = calls + 1
    /\ pcE' = "raised"
    /\ UNCHANGED <<numPages, batch_start, all_results, parseFailures, reported>>
    /\ UNCHANGED <<varsS, varsR, varsP>>

\* Lines 140-144 after the loop has ended.
Return ==
    /\ pcE = "loop"
    /\ batch_start >= numPages
    /\ all_results' = FillMissing(all_results)
    /\ pcE' = "returned"
    /\ UNCHANGED <<numPages, batch_start, raw, calls, parseFailures, reported>>
    /\ UNCHANGED <<varsS, varsR, varsP>>

-----------------------------------------------------------------------------
(* Claims about extract_info_from_pdf                                      *)

Resolved(v) == Truthy(v) /\ v # SENTINEL

\* C1: once the accumulator holds a non-empty, non-sentinel value for a key,
\* no later step of the extraction changes that key's value.
C1_MonotonicResolution ==
    [][\A k \in DOMAIN all_results :
          Resolved(all_results[k]) =>
              (k \in DOMAIN all_results' /\ all_results'[k] = all_results[k])]_vars

\* A later batch reported a different non-trivial value for a key that an
\* earlier batch had resolved, and the accumulator kept the earlier one.
C1_Witness ==
    /\ calls >= 2
    /\ raw.kind = "object"
    /\ \E k \in DOMAIN raw.items \cap DOMAIN all_results :
          /\ Resolved(raw.items[k])
          /\ Resolved(all_results[k])
          /\ raw.items[k] # all_results[k]

\* C2: the returned field map has every key of ALL_FIELDS, each with a JSON
\* value, and a schema key for which no batch gave a non-trivial value holds
\* the sentinel.
C2_FieldMapComplete ==
    pcE = "returned" =>
        \A f \in ALL_FIELDS :
            /\ f \in DOMAIN all_results
            /\ all_results[f] \in JsonValues
            /\ (f \notin reported => all_results[f] = SENTINEL)

\* A returned map after a failed batch and a batch that resolved a schema
\* key, with other schema keys left at the sentinel.
C2_Witness ==
    /\ pcE = "returned"
    /\ parseFailures >= 1
    /\ \E f \in ALL_FIELDS : f \in reported /\ Resolved(all_results[f])
    /\ \E f \in ALL_FIELDS : f \notin reported /\ all_results[f] = SENTINEL

\* C9: a batch whose response does not parse as a JSON object leaves the
\* accumulator as it was and the loop goes on to the next batch; only a
\* failing API call, never a response, ends the extraction without a map.
C9_ParseFailureSkipsBatch ==
    /\ [](pcE = "raised" => raw.kind = "none")
    /\ [][(calls' = calls + 1 /\ raw'.kind \in {"garbage", "nonobject"}) =>
            /\ all_results' = all_results
            /\ batch_start' = batch_start + BATCH_SIZE
            /\ pcE' = "loop"]_vars

\* A map was returned although a batch failed to parse while the accumulator
\* already held a value, and a later batch was still merged.
C9_Witness ==
    /\ pcE = "returned"
    /\ parseFailures >= 1
    /\ calls >= 3
    /\ raw.kind = "object"
    /\ \E k \in DOMAIN raw.items : Resolved(raw.items[k]) /\ all_results[k] = raw.items[k]
    /\ \E k \in DOMAIN all_results : Resolved(all_results[k]) /\ k \notin DOMAIN raw.items

-----------------------------------------------------------------------------
(* Placeholder substitution of fill_template (lines 230-231)               *)
(* Text is a sequence of one-character strings.                            *)

MaxPieces == 6
MaxPasses == 2

\* str.replace(old, new, 1): only the first occurrence.
RECURSIVE ReplaceFirstOnly(_, _, _)
ReplaceFirstOnly(s, old, new) ==
    IF Len(s) < Len(old) THEN s
    ELSE IF SubSeq(s, 1, Len(old)) = old
         THEN new \o SubSeq(s, Len(old) + 1, Len(s))
         ELSE <<s[1]>> \o ReplaceFirstOnly(Tail(s), old, new)

\* Python's str.replace(old, new) for a non-empty old: the occurrences are
\* found left to right and do not overlap.
RECURSIVE Replace(_, _, _)
Replace(s, old, new) ==
    IF Len(s) < Len(old) THEN s
    ELSE IF SubSeq(s, 1, Len(old)) = old
         THEN new \o Replace(SubSeq(s, Len(old) + 1, Len(s)), old, new)
         ELSE <<s[1]>> \o Replace(Tail(s), old, new)

\* "{{" + key + "}}" of line 231.
Token(key) == <<"{", "{">> \o key \o <<"}", "}">>

\* `str(value) if value else ""` of line 231, for a string value.
ValueText(value) == IF value = <<>> THEN <<>> ELSE value

\* The loop of lines 230-231 from the i-th item of data.items() on.
RECURSIVE SubstituteFrom(_, _, _, _)
SubstituteFrom(text, d, ord, i) ==
    IF i > Len(ord) THEN text
    ELSE SubstituteFrom(Replace(text, Token(ord[i]), ValueText(d[ord[i]])),
                        d, ord, i + 1)

Substitute(text, d, ord) == SubstituteFrom(text, d, ord, 1)

\* Inputs: two keys, values without "{{" or "}}", both orders of the keys,
\* and every template made of at most MaxPieces of the pieces below.
SubstKeys == {<<"a">>, <<"b">>}
SubstValues == {<<>>, <<"a">>, <<"{">>}
Pieces == {<<"{", "{">>, <<"}", "}">>, <<"a">>, <<"b">>}
KeyOrders == {<< <<"a">>, <<"b">> >>, << <<"b">>, <<"a">> >>}

RECURSIVE Flatten(_)
Flatten(ps) == IF ps = <<>> THEN <<>> ELSE Head(ps) \o Flatten(Tail(ps))

Templates == {Flatten(ps) : ps \in UNION {[1..n -> Pieces] : n \in 0..MaxPieces}}

InitSubst ==
    /\ template \in Templates
    /\ data \in [SubstKeys -> SubstValues]
    /\ order \in KeyOrders
    /\ xml_content = template
    /\ once = <<>>
    /\ passes = 0
    /\ ExtractIdle
    /\ RewriteIdle
    /\ SubmitIdle

\* One run of the loop of lines 230-231 over the current text.
SubstitutePass ==
    /\ passes < MaxPasses
    /\ xml_content' = Substitute(xml_content, data, order)
    /\ once' = IF passes = 0 THEN xml_content' ELSE once
    /\ passes' = passes + 1
    /\ UNCHANGED <<template, data, order>>
    /\ UNCHANGED <<varsE, varsR, varsP>>

NextSubst == SubstitutePass

SpecSubst == InitSubst /\ [][NextSubst]_vars

-----------------------------------------------------------------------------
(* Claims about the substitution                                           *)

Contains(s, sub) ==
    \E i \in 1..(Len(s) - Len(sub) + 1) : SubSeq(s, i, i + Len(sub) - 1) = sub

NoTokenSyntax(v) == ~Contains(v, <<"{", "{">>) /\ ~Contains(v, <<"}", "}">>)

BraceFree(s) == \A i \in 1..Len(s) : s[i] \notin {"{", "}"}

\* The first index from i on that holds a brace, or Len(s) + 1.
RECURSIVE NextBrace(_, _)
NextBrace(s, i) ==
    IF i > Len(s) \/ s[i] \in {"{", "}"} THEN i ELSE NextBrace(s, i + 1)

\* Every brace of s belongs to a complete token "{{" name "}}" whose name
\* holds no brace.
RECURSIVE TokensOnly(_)
TokensOnly(s) ==
    IF s = <<>> THEN TRUE
    ELSE IF s[1] \notin {"{", "}"} THEN TokensOnly(Tail(s))
    ELSE LET j == NextBrace(s, 3)
         IN  /\ Len(s) >= 4
             /\ s[1] = "{" /\ s[2] = "{"
             /\ j < Len(s)
             /\ s[j] = "}" /\ s[j + 1] = "}"
             /\ TokensOnly(SubSeq(s, j + 2, Len(s)))

\* C3 as stated: with no value containing "{{" or "}}", substituting a second
\* time changes nothing, for every template and either order of the keys.
C3_IdempotentAsStated ==
    (passes >= 2 /\ \A k \in DOMAIN data : NoTokenSyntax(data[k]))
        => xml_content = once

\* C3 as amended: the same when moreover no value holds a brace at all and
\* every brace of the template belongs to a complete token {{name}} whose
\* name holds no brace.
C3_IdempotentOnTokenTemplates ==
    (/\ passes >= 2
     /\ \A k \in DOMAIN data : BraceFree(data[k])
     /\ TokensOnly(template))
        => xml_content = once

\* A template of tokens and plain text, both keys present, substituted twice
\* with brace-free values: the first pass changed the text.
C3_Witness ==
    /\ passes >= 2
    /\ \A k \in DOMAIN data : BraceFree(data[k])
    /\ TokensOnly(template)
    /\ Contains(template, Token(<<"a">>))
    /\ Contains(template, Token(<<"b">>))
    /\ once # template
    /\ xml_content = once

-----------------------------------------------------------------------------
(* The packaged document and the two rewrites                              *)
(*                                                                         *)
(* An archive is a record of its members:                                  *)
(*   hasDoc, text, blips   word/document.xml: its text and, in order, the  *)
(*                         r:embed / w:comment pairs of its drawings       *)
(*   hasRels, rels         word/_rels/document.xml.rels: Id -> Target      *)
(*   media                 word/media/<file> -> bytes                      *)
(*   other                 the bytes of one more member                    *)
(* A file name is a tuple of its parts, bytes are a tuple naming where     *)
(* they come from.                                                         *)

NumTags == 2
MaxBlips == 2

\* The keys of img_labels (lines 359-365), in their order.
IMG_KEYS == <<"IMAGE_LOCATION_MAP", "IMAGE_PHOTO_1", "IMAGE_PHOTO_2",
              "IMAGE_PHOTO_3", "IMAGE_PHOTO_4">>

\* str.lower() of an image key (line 264).
Lower(tag) ==
    CASE tag = "IMAGE_LOCATION_MAP" -> "image_location_map"
      [] tag = "IMAGE_PHOTO_1" -> "image_photo_1"
      [] tag = "IMAGE_PHOTO_2" -> "image_photo_2"
      [] tag = "IMAGE_PHOTO_3" -> "image_photo_3"
      [] tag = "IMAGE_PHOTO_4" -> "image_photo_4"

TagIndex(tag) ==
    IF tag = "none" THEN 0 ELSE CHOOSE i \in DOMAIN IMG_KEYS : IMG_KEYS[i] = tag

\* The image keys the model uses: the first NumTags of IMG_KEYS, or all.
Tags == {IMG_KEYS[i] : i \in {j \in DOMAIN IMG_KEYS : j <= NumTags}}

RIds == {"rId1", "rId2"}
MediaFiles == {<<"image1", "png">>, <<"image2", "png">>}
MediaTarget(f) == [dir |-> "media", file |-> f]
OtherTarget == [dir |-> "", file |-> <<"styles", "xml">>]
TemplateBytes(f) == <<"template", f[1]>>
UploadBytes(tag) == <<"upload", tag>>

NoArchive ==
    [hasDoc |-> FALSE, text |-> <<>>, blips |-> <<>>, hasRels |-> FALSE,
     rels |-> [r \in RIds |-> OtherTarget], media |-> <<>>,
     other |-> <<"none">>]

\* The templates of the model: a text with one placeholder, up to MaxBlips
\* drawings, each bound to a relationship and annotated with an image key
\* or not, two relationships, two media files; either of the two XML
\* members may be missing.
TemplateArchives ==
    {[hasDoc |-> hd, text |-> Token(<<"a">>) \o <<"b">>, blips |-> bl,
      hasRels |-> hr, rels |-> rl,
      media |-> [f \in MediaFiles |-> TemplateBytes(f)],
      other |-> <<"content_types">>] :
        hd \in BOOLEAN, hr \in BOOLEAN,
        bl \in UNION {[1..n -> [embed : RIds, comment : Tags \cup {"none"}]] :
                        n \in 0..MaxBlips},
        rl \in [RIds -> {MediaTarget(f) : f \in MediaFiles} \cup {OtherTarget}]}

\* An archive left at the output path by an earlier request.
StaleArchive ==
    [hasDoc |-> TRUE, text |-> <<"o", "l", "d">>, blips |-> <<>>,
     hasRels |-> TRUE, rels |-> [r \in RIds |-> OtherTarget],
     media |-> <<>>, other |-> <<"content_types">>]

Absent == [state |-> "absent", ar |-> NoArchive]
Complete(ar) == [state |-> "archive", ar |-> ar]
Partial == [state |-> "partial", ar |-> NoArchive]

\* The data fill_template is called with, and the order of its items.
FillData == (<<"a">> :> <<"x">>)
FillOrder == << <<"a">> >>

\* ---- fill_template (lines 218-241)

\* Lines 233-240: every member is written to the new archive, and
\* word/document.xml with the substituted text.
FillRewrite(ar, xml) == [ar EXCEPT !.text = xml]

\* The whole function: t the template file, o the file at output_path,
\* fail the step at which the file system refuses.
FillTemplate(t, o, d, ord, fail) ==
    IF ~t.exists
    THEN \* lines 220-224
         [outcome |-> "raised", out |-> o, tmp |-> {}]
    ELSE IF fail = "copy_nothing"
    THEN \* line 225 raises before writing
         [outcome |-> "raised", out |-> o, tmp |-> {}]
    ELSE IF fail = "copy_partial"
    THEN \* line 225 raises while writing
         [outcome |-> "raised", out |-> Partial, tmp |-> {}]
    ELSE IF ~t.ar.hasDoc
    THEN \* line 228 raises KeyError; line 225 has copied the template
         [outcome |-> "raised", out |-> Complete(t.ar), tmp |-> {}]
    ELSE IF fail = "tmpwrite"
    THEN \* lines 234-240 raise; the copy and the temporary file stay
         [outcome |-> "raised", out |-> Complete(t.ar), tmp |-> {".tmp"}]
    ELSE \* line 241
         [outcome |-> "ok",
          out |-> Complete(FillRewrite(t.ar, Substitute(t.ar.text, d, ord))),
          tmp |-> {}]

\* ---- replace_image_in_docx (lines 244-280)

\* Lines 252-257: the relationship id of the first drawing annotated with
\* the tag, or "none".
FindRid(blips, tag) ==
    LET hits == {i \in DOMAIN blips : blips[i].comment = tag}
    IN  IF hits = {} THEN "none"
        ELSE blips[CHOOSE i \in hits : \A j \in hits : i <= j].embed

\* Lines 260-263: the media file the relationship targets, or <<>>.
FindMedia(rels, rid) ==
    IF rid \in DOMAIN rels /\ rels[rid].dir = "media" THEN rels[rid].file
    ELSE <<>>

\* Line 264.
NewFilename(tag, ext) == <<"replaced", Lower(tag), ext>>

\* Lines 266-268: str.replace on the whole relationships text.
RewriteRels(rels, old, new) ==
    [r \in DOMAIN rels |->
        IF rels[r] = MediaTarget(old) THEN MediaTarget(new) ELSE rels[r]]

\* As if every member under word/media/ took the branch of line 276.
ImageRewriteDropsMedia(ar, old, new, bytes) ==
    [ar EXCEPT !.rels = RewriteRels(ar.rels, old, new),
               !.media = IF old \in DOMAIN ar.media
                         THEN (new :> bytes) ELSE <<>>]

\* Lines 271-279: the relationships member gets the rewritten text, the
\* member word/media/<old> is written as word/media/<new> with the new
\* bytes, every other member is copied.
ImageRewrite(ar, old, new, bytes) ==
    [ar EXCEPT
        !.rels = RewriteRels(ar.rels, old, new),
        !.media =
            [f \in (DOMAIN ar.media \ {old}) \cup
                   (IF old \in DOMAIN ar.media THEN {new} ELSE {}) |->
                IF f = new /\ old \in DOMAIN ar.media THEN bytes
                ELSE ar.media[f]]]

\* Without the early returns of lines 255-256 and 261-262, match.group
\* raises on an unbound tag.
ReplaceImageRaisesUnbound(o, tag, bytes, ext, fail) ==
    LET old_filename == FindMedia(o.ar.rels, FindRid(o.ar.blips, tag))
    IN  IF o.state # "archive" \/ ~o.ar.hasRels \/ ~o.ar.hasDoc
           \/ old_filename = <<>> \/ fail = "tmpwrite"
        THEN [outcome |-> "raised", out |-> o, tmp |-> {}]
        ELSE [outcome |-> "ok",
              out |-> Complete(ImageRewrite(o.ar, old_filename,
                                  NewFilename(tag, ext), bytes)),
              tmp |-> {}]

\* The whole function on the file o at docx_path.
ReplaceImage(o, tag, bytes, ext, fail) ==
    IF o.state # "archive" \/ ~o.ar.hasRels \/ ~o.ar.hasDoc
    THEN \* lines 247-249 raise
         [outcome |-> "raised", out |-> o, tmp |-> {}]
    ELSE LET rid == FindRid(o.ar.blips, tag)
             old_filename == FindMedia(o.ar.rels, rid)
         IN  IF rid = "none" \/ old_filename = <<>>
             THEN \* lines 255-256, 261-262
                  [outcome |-> "noop", out |-> o, tmp |-> {}]
             ELSE IF fail = "tmpwrite"
             THEN \* lines 271-279 raise
                  [outcome |-> "raised", out |-> o, tmp |-> {".imgtmp"}]
             ELSE \* line 280
                  [outcome |-> "ok",
                   out |-> Complete(ImageRewrite(o.ar, old_filename,
                                       NewFilename(tag, ext), bytes)),
                   tmp |-> {}]

InitRewrite ==
    /\ tpl \in {[exists |-> FALSE, ar |-> NoArchive]}
               \cup {[exists |-> TRUE, ar |-> a] : a \in TemplateArchives}
    /\ out \in {Absent, Complete(StaleArchive)}
    /\ tmpLeft = {}
    /\ lastOp = "none"
    /\ lastOutcome = "none"
    /\ lastTag = "none"
    /\ opCount = 0
    /\ rewired = {}
    /\ ExtractIdle
    /\ SubstIdle
    /\ SubmitIdle

\* fill_template(fill_data, output_path), as line 410 calls it first.
FillTemplateCall ==
    /\ lastOp = "none"
    /\ \E fail \in {"none", "copy_nothing", "copy_partial", "tmpwrite"} :
          LET r == FillTemplate(tpl, out, FillData, FillOrder, fail)
          IN  /\ out' = r.out
              /\ tmpLeft' = tmpLeft \cup r.tmp
              /\ lastOutcome' = r.outcome
    /\ lastOp' = "fill_template"
    /\ opCount' = opCount + 1
    /\ UNCHANGED <<tpl, lastTag, rewired>>
    /\ UNCHANGED <<varsE, varsS, varsP>>

\* replace_image_in_docx(output_path, img_key, bytes, ext), as the loop of
\* lines 413-415 calls it: after fill_template returned, for image keys in
\* the order of img_labels, until a call raises.
ReplaceImageCall ==
    /\ lastOp # "none"
    /\ lastOutcome \in {"ok", "noop"}
    /\ \E tag \in Tags, fail \in {"none", "tmpwrite"} :
          /\ TagIndex(tag) > TagIndex(lastTag)
          /\ LET r == ReplaceImage(out, tag, UploadBytes(tag), "jpeg", fail)
             IN  /\ out' = r.out
                 /\ tmpLeft' = tmpLeft \cup r.tmp
                 /\ lastOutcome' = r.outcome
                 /\ rewired' = IF r.outcome = "ok" THEN rewired \cup {tag}
                               ELSE rewired
          /\ lastTag' = tag
    /\ lastOp' = "replace_image_in_docx"
    /\ opCount' = opCount + 1
    /\ UNCHANGED tpl
    /\ UNCHANGED <<varsE, varsS, varsP>>

NextRewrite == FillTemplateCall \/ ReplaceImageCall

SpecRewrite == InitRewrite /\ [][NextRewrite]_vars

-----------------------------------------------------------------------------
(* Claims about the rewrites                                               *)

\* The media file the template binds to a tag, or <<>>.
TemplateMedia(tag) == FindMedia(tpl.ar.rels, FindRid(tpl.ar.blips, tag))

\* The relationship the template binds to a tag, or "none".
TemplateRid(tag) == FindRid(tpl.ar.blips, tag)

\* C4: after fill_template and any image rewirings that followed it on the
\* same path, every member of the template is in the output with the
\* template's bytes, except word/document.xml, the relationships member once
\* an image was rewired, and the media entries the rewired tags target; and
\* a rewiring call keeps word/document.xml and every member it does not
\* target as they were before the call.
C4_ArchiveRoundTrip ==
    /\ [](  (lastOp # "none" /\ lastOutcome \in {"ok", "noop"}) =>
            /\ out.state = "archive"
            /\ out.ar.hasDoc = tpl.ar.hasDoc
            /\ out.ar.hasRels = tpl.ar.hasRels
            /\ out.ar.blips = tpl.ar.blips
            /\ out.ar.other = tpl.ar.other
            /\ (rewired = {} => out.ar.rels = tpl.ar.rels)
            /\ \A f \in DOMAIN tpl.ar.media :
                  f \notin {TemplateMedia(t) : t \in rewired} =>
                      /\ f \in DOMAIN out.ar.media
                      /\ out.ar.media[f] = tpl.ar.media[f])
    /\ [][(lastOp' = "replace_image_in_docx" /\ opCount' = opCount + 1
           /\ lastOutcome' = "ok") =>
            /\ out'.ar.text = out.ar.text
            /\ out'.ar.blips = out.ar.blips
            /\ out'.ar.other = out.ar.other
            /\ \A f \in DOMAIN out.ar.media :
                  f # FindMedia(out.ar.rels, FindRid(out.ar.blips, lastTag')) =>
                      /\ f \in DOMAIN out'.ar.media
                      /\ out'.ar.media[f] = out.ar.media[f]]_vars

\* The template was filled and then two images were rewired on the same
\* path, and a media member no tag targets is still there.
C4_Witness ==
    /\ lastOp = "replace_image_in_docx"
    /\ lastOutcome = "ok"
    /\ Cardinality(rewired) >= 2
    /\ out.ar.text # tpl.ar.text
    /\ \E f \in DOMAIN tpl.ar.media :
          /\ f \notin {TemplateMedia(t) : t \in rewired}
          /\ f \in DOMAIN out.ar.media

\* C5: a call that raises leaves the file at the destination path as it was
\* before the call.
C5_FailedRewriteLeavesDestination ==
    [][(opCount' = opCount + 1 /\ lastOutcome' = "raised") => out' = out]_vars

\* C8: when replace_image_in_docx reads both XML members and finds no
\* drawing annotated with the tag, or the drawing's relationship has no
\* media target, the file is left as it was, no temporary file is made and
\* the call returns without raising.
C8_UnboundTagIsNoOp ==
    [][(/\ opCount' = opCount + 1
        /\ lastOp' = "replace_image_in_docx"
        /\ out.state = "archive" /\ out.ar.hasDoc /\ out.ar.hasRels
        /\ FindMedia(out.ar.rels, FindRid(out.ar.blips, lastTag')) = <<>>)
       => (out' = out /\ tmpLeft' = tmpLeft /\ lastOutcome' = "noop")]_vars

\* An unbound tag was passed after another tag had been rewired: the call
\* returned early.
C8_Witness ==
    /\ lastOp = "replace_image_in_docx"
    /\ lastOutcome = "noop"
    /\ rewired # {}
    /\ lastTag \notin rewired
    /\ FindMedia(out.ar.rels, FindRid(out.ar.blips, lastTag)) = <<>>

\* C10: after the rewirings made so far, every relationship that no rewired
\* tag is bound to still has the template's target, with the template's
\* bytes when the target is a media member of the template, and the
\* relationship of each rewired tag targets a media member holding the bytes
\* supplied for that tag.
C10_OnlyTargetedBindingChanges ==
    (lastOp # "none" /\ lastOutcome \in {"ok", "noop"}) =>
        /\ DOMAIN out.ar.rels = DOMAIN tpl.ar.rels
        /\ \A r \in DOMAIN tpl.ar.rels :
              r \notin {TemplateRid(t) : t \in rewired} =>
                  /\ out.ar.rels[r] = tpl.ar.rels[r]
                  /\ (tpl.ar.rels[r].dir = "media"
                      /\ tpl.ar.rels[r].file \in DOMAIN tpl.ar.media) =>
                        /\ tpl.ar.rels[r].file \in DOMAIN out.ar.media
                        /\ out.ar.media[tpl.ar.rels[r].file]
                              = tpl.ar.media[tpl.ar.rels[r].file]
        /\ \A t \in rewired :
              /\ out.ar.rels[TemplateRid(t)].dir = "media"
              /\ out.ar.rels[TemplateRid(t)].file \in DOMAIN out.ar.media
              /\ out.ar.media[out.ar.rels[TemplateRid(t)].file] = UploadBytes(t)

-----------------------------------------------------------------------------
(* Locale enrichment and the report_form submit handler                    *)

MaxPois == 1

\* The five categories of lines 171-177, in the order they are searched.
CATEGORIES == 1..5

EmptyLists == [c \in CATEGORIES |-> 0]

\* `surroundings = {}` of line 388.
NoSurroundings ==
    [set |-> FALSE, coord |-> FALSE, lists |-> EmptyLists, status |-> "none"]

\* search_surroundings (lines 147-189). geo is the outcome of the geocoding
\* request, done the number of nearby searches that returned before one
\* raised (5: none raised), counts[c] the number of entries kept for
\* category c when its search returned. The record is given by the length
\* of each list.
SearchSurroundings(geo, done, counts) ==
    IF geo = "exception"
    THEN \* lines 160-164 raise, line 188
         [set |-> TRUE, coord |-> FALSE, lists |-> EmptyLists,
          status |-> "SEARCH_EXCEPTION"]
    ELSE IF geo = "unresolved"
    THEN \* lines 165-167
         [set |-> TRUE, coord |-> FALSE, lists |-> EmptyLists,
          status |-> "GEOCODE_FAILED"]
    ELSE \* lines 168-186, and line 188 when a search raised
         [set |-> TRUE, coord |-> TRUE,
          lists |-> [c \in CATEGORIES |-> IF c <= done THEN counts[c] ELSE 0],
          status |-> IF done = 5 THEN "SUCCESS" ELSE "SEARCH_EXCEPTION"]

\* The requests search_surroundings makes, in order.
SearchEvents(geo, done) ==
    IF geo # "ok" THEN <<"geocode">>
    ELSE <<"geocode">> \o [i \in 1..(IF done = 5 THEN 5 ELSE done + 1) |-> "nearby"]

\* str.strip() on a text whose only whitespace is " ".
RECURSIVE StripLeft(_)
StripLeft(t) == IF t # <<>> /\ Head(t) = " " THEN StripLeft(Tail(t)) ELSE t

RECURSIVE StripRight(_)
StripRight(t) ==
    IF t # <<>> /\ t[Len(t)] = " " THEN StripRight(SubSeq(t, 1, Len(t) - 1))
    ELSE t

Strip(t) == StripRight(StripLeft(t))

\* Lines 212-215 on the parts text.split("---SPLIT---") gives.
Paragraphs(parts) ==
    << Strip(parts[1]), IF Len(parts) > 1 THEN Strip(parts[2]) ELSE <<>> >>

\* What the split of a narrative response can give: one to three parts.
Segments == {<<>>, <<"p">>, <<" ", "q">>}
NarrativeParts == UNION {[1..n -> Segments] : n \in 1..3}

\* The template the handler fills when it is there: its placeholder {{a}}
\* stands for the first narrative paragraph, the first image key is bound to
\* rId1, the others are not bound.
SubmitTemplate ==
    [hasDoc |-> TRUE, text |-> Token(<<"a">>) \o <<"b">>,
     blips |-> <<[embed |-> "rId1", comment |-> IMG_KEYS[1]]>>,
     hasRels |-> TRUE,
     rels |-> ("rId1" :> MediaTarget(<<"image1", "png">>)
               @@ "rId2" :> MediaTarget(<<"image2", "png">>)),
     media |-> [f \in MediaFiles |-> TemplateBytes(f)],
     other |-> <<"content_types">>]

InitSubmit ==
    /\ pcP = "render"
    \* the checkbox of lines 376-381 is disabled without a maps key
    /\ inputs \in {i \in [api_key : BOOLEAN, amap_key : BOOLEAN,
                            fetch_surr : BOOLEAN, address : BOOLEAN,
                            uploaded : SUBSET Tags] :
                        i.fetch_surr => i.amap_key}
    /\ surroundings = NoSurroundings
    /\ paras = << <<>>, <<>> >>
    /\ events = <<>>
    /\ tpl \in {[exists |-> FALSE, ar |-> NoArchive],
                [exists |-> TRUE, ar |-> SubmitTemplate]}
    /\ out = Absent
    /\ tmpLeft = {}
    /\ lastOp = "none"
    /\ lastOutcome = "none"
    /\ lastTag = "none"
    /\ opCount = 0
    /\ rewired = {}
    /\ ExtractIdle
    /\ SubstIdle

\* Lines 296-299: the script run of the submit renders the sidebar first.
RenderSidebar ==
    /\ pcP = "render"
    /\ events' = IF tpl.exists THEN events
                 ELSE Append(events, "sidebar_template_missing")
    /\ pcP' = "search"
    /\ UNCHANGED <<inputs, surroundings, paras>>
    /\ UNCHANGED <<varsE, varsS, varsR>>

\* Lines 388-395.
SubmitSearch ==
    /\ pcP = "search"
    /\ IF inputs.fetch_surr /\ inputs.amap_key /\ inputs.address
       THEN \E geo \in {"ok", "unresolved", "exception"}, done \in 0..5,
               counts \in [CATEGORIES -> 0..MaxPois] :
              /\ geo # "ok" => (done = 0 /\ counts = EmptyLists)
              /\ \A c \in CATEGORIES : c > done => counts[c] = 0
              /\ surroundings' = SearchSurroundings(geo, done, counts)
              /\ events' = events \o SearchEvents(geo, done)
                    \o (IF geo = "unresolved" THEN <<"geocode_unresolved">>
                        ELSE IF geo = "exception" \/ done < 5
                        THEN <<"search_exception">> ELSE <<>>)
       ELSE UNCHANGED <<surroundings, events>>
    /\ pcP' = "narrate"
    /\ UNCHANGED <<inputs, paras>>
    /\ UNCHANGED <<varsE, varsS, varsR>>

\* Lines 397-400: generate_surrounding_description is called outside any
\* try; when the call of line 206 raises, the exception leaves the handler.
SubmitNarrate ==
    /\ pcP = "narrate"
    /\ IF inputs.api_key /\ inputs.address
       THEN \/ /\ events' = events \o <<"narrative_call", "narrative_exception">>
               /\ pcP' = "crashed"
               /\ UNCHANGED paras
            \/ \E parts \in NarrativeParts :
                  /\ paras' = Paragraphs(parts)
                  /\ events' = Append(events, "narrative_call")
                  /\ pcP' = "fill"
       ELSE /\ pcP' = "fill"
            /\ UNCHANGED <<paras, events>>
    /\ UNCHANGED <<inputs, surroundings>>
    /\ UNCHANGED <<varsE, varsS, varsR>>

\* Lines 402-410 and the except branches of lines 431-435.
SubmitFill ==
    /\ pcP = "fill"
    /\ \E fail \in {"none", "tmpwrite"} :
          LET r == FillTemplate(tpl, out, (<<"a">> :> paras[1]), FillOrder, fail)
          IN  /\ out' = r.out
              /\ tmpLeft' = tmpLeft \cup r.tmp
              /\ lastOutcome' = r.outcome
              /\ events' =
                    IF ~tpl.exists
                    THEN Append(events, "template_missing_raised")
                    ELSE IF r.outcome = "raised"
                    THEN events \o <<"write_output", "failure_reported">>
                    ELSE Append(events, "write_output")
              /\ pcP' = IF r.outcome = "ok" THEN "images" ELSE "error_reported"
    /\ lastOp' = "fill_template"
    /\ opCount' = opCount + 1
    /\ UNCHANGED <<tpl, lastTag, rewired>>
    /\ UNCHANGED <<inputs, surroundings, paras>>
    /\ UNCHANGED <<varsE, varsS>>

\* One iteration of the loop of lines 413-415: the next uploaded image.
SubmitImage ==
    /\ pcP = "images"
    /\ \E tag \in inputs.uploaded, fail \in {"none", "tmpwrite"} :
          /\ TagIndex(tag) > TagIndex(lastTag)
          /\ \A u \in inputs.uploaded :
                TagIndex(u) > TagIndex(lastTag) => TagIndex(tag) <= TagIndex(u)
          /\ LET r == ReplaceImage(out, tag, UploadBytes(tag), "jpeg", fail)
             IN  /\ out' = r.out
                 /\ tmpLeft' = tmpLeft \cup r.tmp
                 /\ lastOutcome' = r.outcome
                 /\ rewired' = IF r.outcome = "ok" THEN rewired \cup {tag}
                               ELSE rewired
                 /\ pcP' = IF r.outcome = "raised" THEN "error_reported"
                           ELSE "images"
                 /\ events' = IF r.outcome = "raised"
                              THEN Append(events, "failure_reported")
                              ELSE IF r.outcome = "ok"
                              THEN Append(events, "write_output")
                              ELSE events
          /\ lastTag' = tag
    /\ lastOp' = "replace_image_in_docx"
    /\ opCount' = opCount + 1
    /\ UNCHANGED tpl
    /\ UNCHANGED <<inputs, surroundings, paras>>
    /\ UNCHANGED <<varsE, varsS>>

\* Lines 417-429, once the loop has no image left.
SubmitFinish ==
    /\ pcP = "images"
    /\ \A u \in inputs.uploaded : TagIndex(u) <= TagIndex(lastTag)
    /\ pcP' = "done"
    /\ events' = Append(events, "report_stored")
    /\ UNCHANGED <<inputs, surroundings, paras>>
    /\ UNCHANGED <<varsE, varsS, varsR>>

NextSubmit ==
    \/ RenderSidebar
    \/ SubmitSearch
    \/ SubmitNarrate
    \/ SubmitFill
    \/ SubmitImage
    \/ SubmitFinish

SpecSubmit == InitSubmit /\ [][NextSubmit]_vars

-----------------------------------------------------------------------------
(* Claims about the submit handler                                         *)

Occurs(e) == \E i \in DOMAIN events : events[i] = e

\* C6: after a failure of either enrichment stage the handler is not left
\* before fill_template, the surroundings record is well formed, and after
\* a geocoding failure it has the status of line 166 with five empty lists
\* and the narrative call is still made.
C6_EnrichmentFailureNeverAborts ==
    (Occurs("geocode_unresolved") \/ Occurs("search_exception")
        \/ Occurs("narrative_exception")) =>
        /\ pcP # "crashed"
        /\ surroundings.set => surroundings.status \in
              {"SUCCESS", "GEOCODE_FAILED", "SEARCH_EXCEPTION"}
        /\ Occurs("geocode_unresolved") =>
              /\ surroundings.status = "GEOCODE_FAILED"
              /\ surroundings.lists = EmptyLists
              /\ (pcP \notin {"search", "narrate"} /\ inputs.api_key)
                    => Occurs("narrative_call")

\* C7: when the template is missing, the error fill_template raises comes
\* before any external call and any file write of the request.
C7_TemplateErrorBeforeProcessing ==
    \A i \in DOMAIN events :
        events[i] = "template_missing_raised" =>
            \A j \in 1..(i - 1) :
                events[j] \notin {"geocode", "nearby", "narrative_call",
                                  "write_output"}

-----------------------------------------------------------------------------
(* Specification of the extraction                                        *)

NextExtract == ProcessBatch \/ ApiError \/ Return

InitExtract == InitE /\ SubstIdle /\ RewriteIdle /\ SubmitIdle

SpecExtract == InitExtract /\ [][NextExtract]_vars

=============================================================================
